---- MODULE Spec2Model ----
(***************************************************************************)
(* Content versioning and publish/delete workflow of ContentService        *)
(* (cms-api/src/modules/content/content.service.ts).                       *)
(*                                                                         *)
(* Strings are sequences of one-character strings, so that the descendant  *)
(* regular expression of softDeleteContentChildren is matched character by *)
(* character.  Every await of the service is one action: a mongoose query  *)
(* or save is issued by the preceding action and takes effect in the       *)
(* action named after it.  A document loaded from a store is a local copy; *)
(* save() of a loaded document writes only the paths the code assigned,    *)
(* save() of a new document inserts it and fails on a duplicate _id.       *)
(***************************************************************************)
EXTENDS Integers, Sequences, FiniteSets, TLC

\* ------------------------------------------------------------------ bounds
MaxCalls   == 2     \* calls of the service in progress at the same time
MaxCreates == 3     \* executeCreateContentFlow calls in one behaviour
MaxUpdates == 2     \* updateAndPublishContent calls in one behaviour
MaxDeletes == 1     \* executeDeleteContentFlow calls in one behaviour
MaxHasChildren == 2 \* updateHasChildren calls in one behaviour
MaxOps     == 4     \* calls in one behaviour when they run one at a time
MaxOverlapOps == 3  \* calls in one behaviour when they may overlap
MaxTime    == 1     \* the clock runs from 0 to MaxTime milliseconds

Calls == 1..MaxCalls

\* ------------------------------------------------------------------ values
\* null / undefined of a string or id valued field
Null == <<"NULL">>
\* a Date field that was never set
NoTime == -1
\* the document a query resolves to when nothing matches
NullDoc == [_id |-> Null]

Comma == <<",">>

\* ids the store hands out: "1", "12", "2"
IdSet == {<<"1">>, <<"1", "2">>, <<"2">>}

\* `${v}` : a template literal renders null as the text "null"
TemplateString(v) == IF v = Null THEN <<"n", "u", "l", "l">> ELSE v

\* JavaScript truthiness of a string valued field
Truthy(v) == v # Null /\ v # <<>>

\* the reference kinds imported from the page, block and media models
cmsPage           == "cmsPage"
cmsBlock          == "cmsBlock"
cmsMedia          == "cmsMedia"
cmsPublishedPage  == "cmsPublishedPage"
cmsPublishedBlock == "cmsPublishedBlock"
cmsPublishedMedia == "cmsPublishedMedia"
Widget            == "widget"

Ref(id, kind) == [content |-> id, refPath |-> kind]

\* the name, properties and childItems a caller sends with an update
Payloads ==
    { [name |-> "n1", properties |-> "p1",
       childItems |-> << Ref(<<"1">>, cmsPage), Ref(<<"2">>, cmsBlock),
                         Ref(<<"1", "2">>, Widget) >>],
      [name |-> "n2", properties |-> "p2",
       childItems |-> << Ref(<<"2">>, cmsMedia) >>] }

\* the document a caller hands to executeCreateContentFlow
NewContent(id, parentId) ==
    [_id |-> id, name |-> "n0", properties |-> "p0",
     parentId |-> parentId, parentPath |-> Null, ancestors |-> <<>>,
     childItems |-> <<>>, publishedChildItems |-> <<>>,
     hasChildren |-> FALSE, isPublished |-> FALSE, isDeleted |-> FALSE,
     created |-> NoTime, changed |-> NoTime, published |-> NoTime,
     deleted |-> NoTime]

\* ------------------------------------------------------------------ state
VARIABLES
    contentStore,     \* contentModel: _id -> Content
    versionStore,     \* contentVersionModel: set of ContentVersion rows
    publishedStore,   \* publishedContentModel: set of PublishedContent rows
    calls,            \* the calls of the service, each with its position
    now,              \* the clock new Date() reads
    idCounter,        \* ObjectIds generated so far by new mongoose.Types.ObjectId()
    started           \* calls begun so far, by operation

vars == <<contentStore, versionStore, publishedStore, calls, now, idCounter, started>>

Stores == [content |-> contentStore, version |-> versionStore,
           published |-> publishedStore]

\* ------------------------------------------------------------------ helpers
IsPrefix(p, s) == Len(p) <= Len(s) /\ SubSeq(s, 1, Len(p)) = p

IsSubstring(p, s) ==
    \E k \in 0..(Len(s) - Len(p)) : SubSeq(s, k + 1, k + Len(p)) = p

InSeq(x, s) == \E i \in 1..Len(s) : s[i] = x

\* new mongoose.Types.ObjectId(): the n-th generated id
ObjectId(n) == <<"v", ToString(n)>>

\* BaseService.getModelById: the Content with this id, or null
getModelById(id) ==
    IF id \in DOMAIN contentStore THEN contentStore[id] ELSE NullDoc

SaveWhole(row, doc, paths) == doc

\* document.save() of a loaded document: only the assigned paths are written
SaveModified(row, doc, paths) ==
    [f \in DOMAIN row |-> IF f \in paths THEN doc[f] ELSE row[f]]

\* ------------------------------------------------------------------ populated read
MatchAnyContent(row) == TRUE

\* match: { isDeleted: false }
matchNotDeleted(row) == row.isDeleted = FALSE

\* contentModel.findOne({ _id: id })
findOne(id) ==
    IF id \in DOMAIN contentStore THEN contentStore[id] ELSE NullDoc

\* populate of childItems.content: the reference is replaced by the Content it names
\* when that Content matches, by null otherwise; the item itself stays in the list
populate(item) ==
    [item EXCEPT !.content =
        IF item.content \in DOMAIN contentStore
              /\ matchNotDeleted(contentStore[item.content])
        THEN contentStore[item.content]
        ELSE NullDoc]

getPopulatedContentById(id) ==
    LET key == IF Truthy(id) THEN id ELSE Null
        doc == findOne(key)
    IN  IF doc = NullDoc
        THEN NullDoc
        ELSE [doc EXCEPT !.childItems = [i \in 1..Len(@) |-> populate(@[i])]]

\* ------------------------------------------------------------------ create
\* the Path Index rule of createContent
AncestorsWithoutParent(parentContent) == parentContent.ancestors

ParentPathOf(parentContent) ==
    IF Truthy(parentContent.parentPath)
    THEN TemplateString(parentContent.parentPath)
             \o TemplateString(parentContent._id) \o Comma
    ELSE Comma \o TemplateString(parentContent._id) \o Comma

AncestorsOf(parentContent) ==
    Append(parentContent.ancestors, parentContent._id)

createContent(newContent, parentContent, t) ==
    IF parentContent # NullDoc
    THEN [newContent EXCEPT !.created = t, !.changed = t,
                            !.parentId = parentContent._id,
                            !.parentPath = ParentPathOf(parentContent),
                            !.ancestors = AncestorsOf(parentContent)]
    ELSE [newContent EXCEPT !.created = t, !.changed = t,
                            !.parentId = Null,
                            !.parentPath = Null,
                            !.ancestors = <<>>]

\* ------------------------------------------------------------------ update
RefPathIdentity(refPath) == refPath

getPublishedRefPath(refPath) ==
    CASE refPath = cmsPage  -> cmsPublishedPage
      [] refPath = cmsBlock -> cmsPublishedBlock
      [] refPath = cmsMedia -> cmsPublishedMedia
      [] OTHER              -> refPath

getPublishedChildItems(currentItems) ==
    [i \in 1..Len(currentItems) |->
        [content |-> currentItems[i].content,
         refPath |-> getPublishedRefPath(currentItems[i].refPath)]]

updateContent(currentContent, pageObj, t) ==
    [currentContent EXCEPT
        !.changed = t,
        !.name = pageObj.name,
        !.properties = pageObj.properties,
        !.childItems = pageObj.childItems,
        !.publishedChildItems = getPublishedChildItems(pageObj.childItems)]

UpdatePaths == {"changed", "name", "properties", "childItems", "publishedChildItems"}

\* the condition of updateAndPublishContent for running the publish flow
PublishWhenNotOlder(contentObj, currentContent) ==
    contentObj.isPublished
        /\ (currentContent.published = NoTime
              \/ currentContent.changed >= currentContent.published)

ShouldPublish(contentObj, currentContent) ==
    contentObj.isPublished
        /\ (currentContent.published = NoTime
              \/ currentContent.changed > currentContent.published)

\* ------------------------------------------------------------------ publish
publishContent(currentContent, t) ==
    [currentContent EXCEPT !.isPublished = TRUE, !.published = t]

PublishedOnly == {"published"}

PublishPaths == {"isPublished", "published"}

createPageVersion(currentContent, versionId) ==
    [currentContent EXCEPT !._id = versionId]
        @@ [contentId |-> currentContent._id]

\* contentVersionDocument.save(): insert of a new row
InsertReplacingContentVersion(store, row) ==
    {r \in store : r.contentId # row.contentId} \cup {row}

InsertVersion(store, row) == store \cup {row}

\* publishedContentModel.findOneAndDelete({ _id })
findOneAndDelete(store, id) == {r \in store : r._id # id}

PublishedPageOfContentId(currentContent, contentVersionId) ==
    currentContent @@ [contentId |-> currentContent._id,
                       contentVersionId |-> currentContent._id]

newPublishedPage(currentContent, contentVersionId) ==
    currentContent @@ [contentId |-> currentContent._id,
                       contentVersionId |-> contentVersionId]

HasRow(store, id) == \E r \in store : r._id = id
RowOf(store, id) == CHOOSE r \in store : r._id = id

\* ------------------------------------------------------------------ delete
DatedOnly(currentContent, t) ==
    [currentContent EXCEPT !.deleted = t]

softDeleteContent(currentContent, t) ==
    [currentContent EXCEPT !.deleted = t, !.isDeleted = TRUE]

SoftDeletePaths == {"deleted", "isDeleted"}

\* the text after "^" of the descendant regular expression
startWithParentPathRegExp(currentContent) ==
    TemplateString(currentContent.parentPath)
        \o TemplateString(currentContent._id) \o Comma

\* { parentPath: { $regex: ... } } : a null parentPath never matches
MatchesIdAnywhere(row, currentContent) ==
    row.parentPath # Null
        /\ IsSubstring(TemplateString(currentContent._id) \o Comma, row.parentPath)

MatchesConditions(row, currentContent) ==
    row.parentPath # Null
        /\ IsPrefix(startWithParentPathRegExp(currentContent), row.parentPath)

updateMany(store, currentContent, t) ==
    [id \in DOMAIN store |->
        IF MatchesConditions(store[id], currentContent)
        THEN [store[id] EXCEPT !.isDeleted = TRUE, !.deleted = t]
        ELSE store[id]]

MatchedCount(store, currentContent) ==
    Cardinality({id \in DOMAIN store : MatchesConditions(store[id], currentContent)})

\* ------------------------------------------------------------------ calls
\* a call slot that runs nothing
IdleCall ==
    [op |-> "none", pc |-> "idle", id |-> Null, arg |-> NullDoc,
     doc |-> NullDoc,              \* currentContent / newContent of the call
     outcome |-> "none",           \* "pending", "ok" or the error the promise rejects with
     result |-> <<>>,              \* what the promise resolves to
     ranPublish |-> FALSE,         \* executePublishContentFlow was entered
     version |-> NullDoc,          \* the ContentVersion of createPageVersion
     publishedPage |-> NullDoc,    \* the PublishedContent built or loaded by the call
     selfSave |-> "none",          \* softDeleteContent(currentContent)
     publishedDelete |-> "none",   \* softDeletePublishedContent(currentContent)
     childrenUpdate |-> "none",    \* softDeleteContentChildren(currentContent)
     updateFields |-> NoTime,      \* the deleted date of the bulk update
     summary |-> -1,               \* result of updateMany
     pre |-> <<>>]                 \* the three stores when the call began

Settled(c) == calls[c].pc \in {"idle", "done"}

Resolve(call, value) ==
    [call EXCEPT !.pc = "done", !.outcome = "ok", !.result = value]

Reject(call, error) ==
    [call EXCEPT !.pc = "done", !.outcome = error]

\* calls begun so far
Started == started.create + started.update + started.delete + started.hasChildren

CreatingIds == {calls[c].id : c \in {d \in Calls : calls[d].op = "create" /\ ~Settled(d)}}

\* ---------------------------------------------------------- executeCreateContentFlow
executeCreateContentFlow(c, admitted) ==
    /\ admitted /\ Settled(c)
    /\ started.create < MaxCreates
    /\ \E id \in IdSet \ (DOMAIN contentStore \cup CreatingIds),
          parentId \in IdSet \cup {Null} :
          calls' = [calls EXCEPT ![c] =
                       [IdleCall EXCEPT !.op = "create", !.pc = "getModelById",
                                        !.id = id, !.arg = NewContent(id, parentId),
                                        !.outcome = "pending", !.pre = Stores]]
    /\ started' = [started EXCEPT !.create = @ + 1]
    /\ UNCHANGED <<contentStore, versionStore, publishedStore, now, idCounter>>

\* the parent lookup resolves; createContent fills the new document and saves it
CreateLoaded(c) ==
    /\ calls[c].op = "create" /\ calls[c].pc = "getModelById"
    /\ calls' = [calls EXCEPT ![c] =
                   [calls[c] EXCEPT
                       !.pc = "save",
                       !.doc = createContent(calls[c].arg,
                                             getModelById(calls[c].arg.parentId), now)]]
    /\ UNCHANGED <<contentStore, versionStore, publishedStore, now, idCounter, started>>

CreateSaved(c) ==
    /\ calls[c].op = "create" /\ calls[c].pc = "save"
    /\ contentStore' = contentStore @@ (calls[c].id :> calls[c].doc)
    /\ calls' = [calls EXCEPT ![c] = Resolve(calls[c], calls[c].doc)]
    /\ UNCHANGED <<versionStore, publishedStore, now, idCounter, started>>

\* ---------------------------------------------------------- updateAndPublishContent
\* the contentObj of a call: the two flags and, when it is dirty, one of the payloads
UnchangedPayload == [name |-> "n0", properties |-> "p0", childItems |-> <<>>]

UpdateInput(d, p, x) ==
    [isDirty |-> d, isPublished |-> p, name |-> x.name,
     properties |-> x.properties, childItems |-> x.childItems]

UpdateInputs ==
    {UpdateInput(TRUE, p, x) : p \in BOOLEAN, x \in Payloads}
        \cup {UpdateInput(FALSE, p, UnchangedPayload) : p \in BOOLEAN}

updateAndPublishContent(c, admitted) ==
    /\ admitted /\ Settled(c)
    /\ started.update < MaxUpdates
    /\ \E id \in IdSet, contentObj \in UpdateInputs :
          calls' = [calls EXCEPT ![c] =
                       [IdleCall EXCEPT !.op = "update", !.pc = "getModelById",
                                        !.id = id, !.arg = contentObj,
                                        !.outcome = "pending", !.pre = Stores]]
    /\ started' = [started EXCEPT !.update = @ + 1]
    /\ UNCHANGED <<contentStore, versionStore, publishedStore, now, idCounter>>

\* lines 93-96: publish if asked and due, else return the content
AfterUpdate(call, currentContent, t) ==
    IF ShouldPublish(call.arg, currentContent)
    THEN [call EXCEPT !.pc = "publishContent", !.ranPublish = TRUE,
                      !.doc = publishContent(currentContent, t)]
    ELSE Resolve([call EXCEPT !.doc = currentContent], currentContent)

\* the lookup resolves: a null currentContent is dereferenced by updateContent and
\* by the publish condition, and returned as it is when neither flag is set
UpdateLoaded(c) ==
    /\ calls[c].op = "update" /\ calls[c].pc = "getModelById"
    /\ LET call == calls[c]
           currentContent == getModelById(call.id)
       IN  calls' = [calls EXCEPT ![c] =
              IF currentContent = NullDoc
              THEN IF call.arg.isDirty \/ call.arg.isPublished
                   THEN Reject(call, "TypeError")
                   ELSE Resolve(call, NullDoc)
              ELSE IF call.arg.isDirty
                   THEN [call EXCEPT !.pc = "updateContent",
                                     !.doc = updateContent(currentContent, call.arg, now)]
                   ELSE AfterUpdate(call, currentContent, now)]
    /\ UNCHANGED <<contentStore, versionStore, publishedStore, now, idCounter, started>>

UpdateSaved(c) ==
    /\ calls[c].op = "update" /\ calls[c].pc = "updateContent"
    /\ contentStore' = [contentStore EXCEPT ![calls[c].id] =
                           SaveModified(@, calls[c].doc, UpdatePaths)]
    /\ calls' = [calls EXCEPT ![c] = AfterUpdate(calls[c], calls[c].doc, now)]
    /\ UNCHANGED <<versionStore, publishedStore, now, idCounter, started>>

\* publishContent's save lands; createPageVersion builds the version and saves it
PublishSaved(c) ==
    /\ calls[c].op = "update" /\ calls[c].pc = "publishContent"
    /\ contentStore' = [contentStore EXCEPT ![calls[c].id] =
                           SaveModified(@, calls[c].doc, PublishPaths)]
    /\ idCounter' = idCounter + 1
    /\ calls' = [calls EXCEPT ![c] =
                   [calls[c] EXCEPT
                       !.pc = "createPageVersion",
                       !.version = createPageVersion(calls[c].doc,
                                                     ObjectId(idCounter + 1))]]
    /\ UNCHANGED <<versionStore, publishedStore, now, started>>

VersionSaved(c) ==
    /\ calls[c].op = "update" /\ calls[c].pc = "createPageVersion"
    /\ versionStore' = InsertVersion(versionStore, calls[c].version)
    /\ calls' = [calls EXCEPT ![c] = [calls[c] EXCEPT !.pc = "findOneAndDelete"]]
    /\ UNCHANGED <<contentStore, publishedStore, now, idCounter, started>>

PublishedDeleted(c) ==
    /\ calls[c].op = "update" /\ calls[c].pc = "findOneAndDelete"
    /\ publishedStore' = findOneAndDelete(publishedStore, calls[c].doc._id)
    /\ calls' = [calls EXCEPT ![c] =
                   [calls[c] EXCEPT
                       !.pc = "createPublishedContent",
                       !.publishedPage = newPublishedPage(calls[c].doc,
                                                          calls[c].version._id)]]
    /\ UNCHANGED <<contentStore, versionStore, now, idCounter, started>>

\* the insert of the new PublishedContent: _id is unique in the collection
PublishedSaved(c) ==
    /\ calls[c].op = "update" /\ calls[c].pc = "createPublishedContent"
    /\ IF HasRow(publishedStore, calls[c].publishedPage._id)
       THEN /\ calls' = [calls EXCEPT ![c] = Reject(calls[c], "DuplicateKey")]
            /\ UNCHANGED publishedStore
       ELSE /\ publishedStore' = publishedStore \cup {calls[c].publishedPage}
            /\ calls' = [calls EXCEPT ![c] = Resolve(calls[c], calls[c].publishedPage)]
    /\ UNCHANGED <<contentStore, versionStore, now, idCounter, started>>

\* ---------------------------------------------------------- executeDeleteContentFlow
executeDeleteContentFlow(c, admitted) ==
    /\ admitted /\ Settled(c)
    /\ started.delete < MaxDeletes
    /\ \E id \in IdSet :
          calls' = [calls EXCEPT ![c] =
                       [IdleCall EXCEPT !.op = "delete", !.pc = "getModelById",
                                        !.id = id, !.outcome = "pending",
                                        !.pre = Stores]]
    /\ started' = [started EXCEPT !.delete = @ + 1]
    /\ UNCHANGED <<contentStore, versionStore, publishedStore, now, idCounter>>

\* Promise.all: resolved with [result[0], result[2]] once the three promises are,
\* rejected as soon as one of them is; the operations already issued still run
AllSettled(call) ==
    /\ call.selfSave = "done"
    /\ call.publishedDelete \in {"done", "failed"}
    /\ call.childrenUpdate \in {"done", "failed"}

JoinIgnoringRejection(call) ==
    IF AllSettled(call)
    THEN Resolve(call, <<call.doc, call.summary>>)
    ELSE call

Join(call) ==
    IF AllSettled(call)
    THEN IF call.outcome = "pending"
         THEN Resolve(call, <<call.doc, call.summary>>)
         ELSE [call EXCEPT !.pc = "done"]
    ELSE call

\* the lookup resolves: softDeleteContent(null) throws before anything is issued;
\* otherwise the three soft deletes are issued together
DeleteLoaded(c) ==
    /\ calls[c].op = "delete" /\ calls[c].pc = "getModelById"
    /\ LET call == calls[c]
           currentContent == getModelById(call.id)
       IN  calls' = [calls EXCEPT ![c] =
              IF currentContent = NullDoc
              THEN Reject(call, "TypeError")
              ELSE [call EXCEPT !.pc = "Promise.all",
                                !.doc = softDeleteContent(currentContent, now),
                                !.selfSave = "save",
                                !.publishedDelete = "findOne",
                                !.childrenUpdate = "updateMany",
                                !.updateFields = now]]
    /\ UNCHANGED <<contentStore, versionStore, publishedStore, now, idCounter, started>>

\* softDeleteContent(currentContent): the save lands
SoftDeleteSaved(c) ==
    /\ calls[c].pc = "Promise.all" /\ calls[c].selfSave = "save"
    /\ contentStore' = [contentStore EXCEPT ![calls[c].id] =
                           SaveModified(@, calls[c].doc, SoftDeletePaths)]
    /\ calls' = [calls EXCEPT ![c] = Join([calls[c] EXCEPT !.selfSave = "done"])]
    /\ UNCHANGED <<versionStore, publishedStore, now, idCounter, started>>

\* softDeletePublishedContent: findOne resolves, softDeleteContent(publishedPage)
\* dereferences it
PublishedFound(c) ==
    /\ calls[c].pc = "Promise.all" /\ calls[c].publishedDelete = "findOne"
    /\ calls' = [calls EXCEPT ![c] =
          IF HasRow(publishedStore, calls[c].id)
          THEN [calls[c] EXCEPT
                   !.publishedDelete = "save",
                   !.publishedPage = softDeleteContent(RowOf(publishedStore, calls[c].id), now)]
          ELSE Join([calls[c] EXCEPT
                   !.publishedDelete = "failed",
                   !.outcome = IF @ = "pending" THEN "TypeError" ELSE @])]
    /\ UNCHANGED <<contentStore, versionStore, publishedStore, now, idCounter, started>>

\* the save of the soft-deleted PublishedContent: an update of the row with its _id,
\* which writes nothing and fails once a publish has removed the row
PublishedSoftDeleteSaved(c) ==
    /\ calls[c].pc = "Promise.all" /\ calls[c].publishedDelete = "save"
    /\ IF HasRow(publishedStore, calls[c].id)
       THEN /\ publishedStore' =
                  {IF r._id = calls[c].id
                   THEN SaveModified(r, calls[c].publishedPage, SoftDeletePaths)
                   ELSE r : r \in publishedStore}
            /\ calls' = [calls EXCEPT ![c] =
                           Join([calls[c] EXCEPT !.publishedDelete = "done"])]
       ELSE /\ UNCHANGED publishedStore
            /\ calls' = [calls EXCEPT ![c] =
                  Join([calls[c] EXCEPT
                           !.publishedDelete = "failed",
                           !.outcome = IF @ = "pending" THEN "DocumentNotFound" ELSE @])]
    /\ UNCHANGED <<contentStore, versionStore, now, idCounter, started>>

\* softDeleteContentChildren: the bulk update is applied as one store operation
ChildrenUpdated(c) ==
    /\ calls[c].pc = "Promise.all" /\ calls[c].childrenUpdate = "updateMany"
    /\ contentStore' = updateMany(contentStore, calls[c].doc, calls[c].updateFields)
    /\ calls' = [calls EXCEPT ![c] =
                   Join([calls[c] EXCEPT
                            !.childrenUpdate = "done",
                            !.summary = MatchedCount(contentStore, calls[c].doc)])]
    /\ UNCHANGED <<versionStore, publishedStore, now, idCounter, started>>

\* ---------------------------------------------------------- updateHasChildren
NeverHasChildren(content) == FALSE

hasChildrenAlready(content) == content.hasChildren

markHasChildren(content, t) ==
    [content EXCEPT !.changed = t, !.hasChildren = TRUE]

HasChildrenPaths == {"changed", "hasChildren"}

\* the caller hands over a Content it loaded, or null; the code up to the save runs
\* with the call
updateHasChildren(c, admitted) ==
    /\ admitted /\ Settled(c)
    /\ started.hasChildren < MaxHasChildren
    /\ \E id \in IdSet \cup {Null} :
          LET content == getModelById(id)
              call == [IdleCall EXCEPT !.op = "hasChildren", !.id = id,
                                       !.arg = content, !.outcome = "pending",
                                       !.pre = Stores]
          IN  calls' = [calls EXCEPT ![c] =
                 IF content = NullDoc THEN Resolve(call, FALSE)
                 ELSE IF hasChildrenAlready(content) THEN Resolve(call, TRUE)
                 ELSE [call EXCEPT !.pc = "save",
                                   !.doc = markHasChildren(content, now)]]
    /\ started' = [started EXCEPT !.hasChildren = @ + 1]
    /\ UNCHANGED <<contentStore, versionStore, publishedStore, now, idCounter>>

HasChildrenSaved(c) ==
    /\ calls[c].op = "hasChildren" /\ calls[c].pc = "save"
    /\ contentStore' = [contentStore EXCEPT ![calls[c].id] =
                           SaveModified(@, calls[c].doc, HasChildrenPaths)]
    /\ calls' = [calls EXCEPT ![c] =
                   Resolve(calls[c], contentStore'[calls[c].id].hasChildren)]
    /\ UNCHANGED <<versionStore, publishedStore, now, idCounter, started>>

\* ------------------------------------------------------------------ clock
\* a millisecond passes; the new Date() calls of one synchronous stretch of code read
\* the same millisecond, and calls that follow each other may do so too
Tick ==
    /\ now < MaxTime
    /\ now' = now + 1
    /\ UNCHANGED <<contentStore, versionStore, publishedStore, calls, idCounter, started>>

\* ------------------------------------------------------------------ specifications
Init ==
    /\ contentStore = <<>>
    /\ versionStore = {}
    /\ publishedStore = {}
    /\ calls = [c \in Calls |-> IdleCall]
    /\ now = 0
    /\ idCounter = 0
    /\ started = [create |-> 0, update |-> 0, delete |-> 0, hasChildren |-> 0]

\* calls overlap: a new call takes the lowest free slot, and every await of one call
\* may interleave with the other calls
Overlapping(c) == Started < MaxOverlapOps /\ \A d \in Calls : d < c => ~Settled(d)

Next ==
    \/ \E c \in Calls : executeCreateContentFlow(c, Overlapping(c))
    \/ \E c \in Calls : updateAndPublishContent(c, Overlapping(c))
    \/ \E c \in Calls : executeDeleteContentFlow(c, Overlapping(c))
    \/ \E c \in Calls : updateHasChildren(c, Overlapping(c))
    \/ \E c \in Calls : HasChildrenSaved(c)
    \/ \E c \in Calls : CreateLoaded(c)
    \/ \E c \in Calls : CreateSaved(c)
    \/ \E c \in Calls : UpdateLoaded(c)
    \/ \E c \in Calls : UpdateSaved(c)
    \/ \E c \in Calls : PublishSaved(c)
    \/ \E c \in Calls : VersionSaved(c)
    \/ \E c \in Calls : PublishedDeleted(c)
    \/ \E c \in Calls : PublishedSaved(c)
    \/ \E c \in Calls : DeleteLoaded(c)
    \/ \E c \in Calls : SoftDeleteSaved(c)
    \/ \E c \in Calls : PublishedFound(c)
    \/ \E c \in Calls : PublishedSoftDeleteSaved(c)
    \/ \E c \in Calls : ChildrenUpdated(c)
    \/ Tick

Spec == Init /\ [][Next]_vars

\* one call at a time: a call begins when everything the last one issued has finished
Awaited == Started < MaxOps /\ \A d \in Calls : Settled(d)

SeqNext ==
    \/ executeCreateContentFlow(1, Awaited)
    \/ updateAndPublishContent(1, Awaited)
    \/ executeDeleteContentFlow(1, Awaited)
    \/ updateHasChildren(1, Awaited)
    \/ HasChildrenSaved(1)
    \/ CreateLoaded(1)
    \/ CreateSaved(1)
    \/ UpdateLoaded(1)
    \/ UpdateSaved(1)
    \/ PublishSaved(1)
    \/ VersionSaved(1)
    \/ PublishedDeleted(1)
    \/ PublishedSaved(1)
    \/ DeleteLoaded(1)
    \/ SoftDeleteSaved(1)
    \/ PublishedFound(1)
    \/ PublishedSoftDeleteSaved(1)
    \/ ChildrenUpdated(1)
    \/ Tick

SeqSpec == Init /\ [][SeqNext]_vars

\* ------------------------------------------------------------------ store failures
\* contentVersionDocument.save() rejects: executePublishContentFlow stops after its
\* first write and the rejection reaches the caller
VersionSaveFailed(c) ==
    /\ calls[c].op = "update" /\ calls[c].pc = "createPageVersion"
    /\ calls' = [calls EXCEPT ![c] = Reject(calls[c], "StoreFailure")]
    /\ UNCHANGED <<contentStore, versionStore, publishedStore, now, idCounter, started>>

\* updateMany rejects: Promise.all rejects with its error unless it already has
ChildrenUpdateFailed(c) ==
    /\ calls[c].pc = "Promise.all" /\ calls[c].childrenUpdate = "updateMany"
    /\ calls' = [calls EXCEPT ![c] =
                   Join([calls[c] EXCEPT
                            !.childrenUpdate = "failed",
                            !.outcome = IF @ = "pending" THEN "StoreFailure" ELSE @])]
    /\ UNCHANGED <<contentStore, versionStore, publishedStore, now, idCounter, started>>

\* one call at a time, with a store that may fail these two writes
FailNext ==
    \/ SeqNext
    \/ VersionSaveFailed(1)
    \/ ChildrenUpdateFailed(1)

FailSpec == Init /\ [][FailNext]_vars

\* ------------------------------------------------------------------ claims
\* the call in slot c has finished, with every operation it issued
Finished(c, op) == calls[c].op = op /\ calls[c].pc = "done"

\* the call in slot c loaded an existing Content
Loaded(c) == calls[c].id \in DOMAIN calls[c].pre.content

VersionsOf(store, id) == {v \in store : v.contentId = id}
PublishedOf(store, id) == {r \in store : r._id = id}

IsDescendant(content, id) == InSeq(id, content.ancestors)

\* C1: every Content with a parent has the parent's ancestors plus the parent's id as
\* ancestors and the parent's path (or ",") plus the parent's id plus "," as parentPath;
\* every Content without a parent has a null parentPath and no ancestors; and no step
\* changes parentId, parentPath or ancestors of a stored Content.
HierarchyOf(id) ==
    LET c == contentStore[id] IN
    IF c.parentId = Null
    THEN c.parentPath = Null /\ c.ancestors = <<>>
    ELSE /\ c.parentId \in DOMAIN contentStore
         /\ LET p == contentStore[c.parentId] IN
            /\ c.ancestors = p.ancestors \o <<p._id>>
            /\ c.parentPath =
                  (IF p.parentPath # Null THEN p.parentPath ELSE <<",">>)
                      \o p._id \o <<",">>

HierarchyKept ==
    \A id \in DOMAIN contentStore :
        /\ id \in DOMAIN contentStore'
        /\ contentStore'[id].parentId = contentStore[id].parentId
        /\ contentStore'[id].parentPath = contentStore[id].parentPath
        /\ contentStore'[id].ancestors = contentStore[id].ancestors

C1_Hierarchy ==
    /\ [](\A id \in DOMAIN contentStore : HierarchyOf(id))
    /\ [][HierarchyKept]_vars

\* a grandchild exists that was soft-deleted after it was created
C1_Witness ==
    \E id \in DOMAIN contentStore :
        /\ Len(contentStore[id].ancestors) = 2
        /\ contentStore[id].isDeleted

\* C2: when executeDelete(id) has finished, every Content with id among its ancestors
\* is deleted, also when the deleted node is a root.
C2_DeleteCascades ==
    \A c \in Calls :
        Finished(c, "delete") /\ Loaded(c) =>
            \A x \in DOMAIN contentStore :
                IsDescendant(contentStore[x], calls[c].id) => contentStore[x].isDeleted

\* C3: executeDelete(id) leaves isDeleted and deleted as they were on every Content
\* that is neither the node itself nor a descendant of it.
C3_DeleteFrame ==
    \A c \in Calls :
        Finished(c, "delete") =>
            \A x \in DOMAIN calls[c].pre.content :
                (x # calls[c].id /\ ~IsDescendant(contentStore[x], calls[c].id)) =>
                    /\ contentStore[x].isDeleted = calls[c].pre.content[x].isDeleted
                    /\ contentStore[x].deleted = calls[c].pre.content[x].deleted

\* a delete that marked a descendant and left alone a live Content whose id starts
\* with the deleted id
C3_Witness ==
    \E c \in Calls :
        /\ Finished(c, "delete") /\ Loaded(c)
        /\ calls[c].summary >= 1
        /\ \E x \in DOMAIN contentStore :
              /\ x # calls[c].id
              /\ IsPrefix(calls[c].id, x)
              /\ ~IsDescendant(contentStore[x], calls[c].id)
              /\ ~contentStore[x].isDeleted

\* C4: executeDelete(id) of an existing Content without a PublishedContent row
\* completes without error and returns the soft-deleted Content and the summary.
C4_DeleteUnpublished ==
    \A c \in Calls :
        (Finished(c, "delete") /\ Loaded(c)
            /\ PublishedOf(calls[c].pre.published, calls[c].id) = {}) =>
                /\ calls[c].outcome = "ok"
                /\ calls[c].result = <<calls[c].doc, calls[c].summary>>

\* C5: one call at a time, an updateAndPublish call that ran the publish flow added
\* exactly one ContentVersion of the id, and exactly one PublishedContent row has the id.
C5_PublishOneVersion ==
    \A c \in Calls :
        Finished(c, "update") /\ calls[c].ranPublish =>
            /\ Cardinality(VersionsOf(versionStore, calls[c].id))
                  = Cardinality(VersionsOf(calls[c].pre.version, calls[c].id)) + 1
            /\ Cardinality(PublishedOf(publishedStore, calls[c].id)) = 1

\* a publish of a Content that was published before
C5_Witness ==
    \E c \in Calls :
        /\ Finished(c, "update") /\ calls[c].ranPublish
        /\ VersionsOf(calls[c].pre.version, calls[c].id) # {}
        /\ PublishedOf(calls[c].pre.published, calls[c].id) # {}

\* C6: two overlapping updateAndPublish calls of one id that both publish both
\* complete, each adds its ContentVersion, and one PublishedContent row of the id is
\* left, written by one of them; never two rows with one id.
C6_ConcurrentPublish ==
    /\ \A r1, r2 \in publishedStore : r1._id = r2._id => r1 = r2
    /\ \A c, d \in Calls :
          (c # d /\ Finished(c, "update") /\ Finished(d, "update")
              /\ calls[c].id = calls[d].id
              /\ calls[c].ranPublish /\ calls[d].ranPublish) =>
                /\ calls[c].outcome = "ok" /\ calls[d].outcome = "ok"
                /\ calls[c].version \in versionStore
                /\ calls[d].version \in versionStore
                /\ calls[c].version # calls[d].version
                /\ Cardinality(PublishedOf(publishedStore, calls[c].id)) = 1
                /\ PublishedOf(publishedStore, calls[c].id)
                      \subseteq {calls[c].publishedPage, calls[d].publishedPage}

\* C7: one call at a time, updateAndPublish of an existing Content adds a
\* ContentVersion exactly when isPublished is set and the Content, after the dirty
\* update if any, was never published or has changed > published; a call with
\* isPublished and without isDirty on a Content with published >= changed changes no
\* row of any store; a call without isPublished publishes nothing.
C7_PublishIffDue ==
    \A c \in Calls :
        Finished(c, "update") /\ Loaded(c) =>
            LET id      == calls[c].id
                in      == calls[c].arg
                before  == calls[c].pre.content[id]
                after   == contentStore[id]
                changed == IF in.isDirty THEN after.changed ELSE before.changed
                due     == in.isPublished
                             /\ (before.published = NoTime \/ changed > before.published)
                added   == Cardinality(VersionsOf(versionStore, id))
                             - Cardinality(VersionsOf(calls[c].pre.version, id))
            IN  /\ due => added = 1 /\ after.isPublished /\ after.published # NoTime
                /\ ~due => /\ versionStore = calls[c].pre.version
                           /\ publishedStore = calls[c].pre.published
                           /\ after.isPublished = before.isPublished
                           /\ after.published = before.published
                /\ (in.isPublished /\ ~in.isDirty /\ before.published # NoTime
                       /\ before.published >= before.changed) =>
                            Stores = calls[c].pre
                /\ ~in.isPublished => /\ versionStore = calls[c].pre.version
                                      /\ publishedStore = calls[c].pre.published

\* a call with isPublished and without isDirty on a Content published at or after its
\* last change
C7_Witness ==
    \E c \in Calls :
        /\ Finished(c, "update") /\ Loaded(c)
        /\ calls[c].arg.isPublished /\ ~calls[c].arg.isDirty
        /\ calls[c].pre.content[calls[c].id].published # NoTime
        /\ calls[c].pre.content[calls[c].id].published
              >= calls[c].pre.content[calls[c].id].changed
        /\ Stores = calls[c].pre

\* C8: updateAndPublish and executeDelete of an id that matches no Content fail with
\* an error and leave the three stores as they were.
C8_MissingIdFails ==
    \A c \in Calls :
        ((Finished(c, "update") \/ Finished(c, "delete")) /\ ~Loaded(c)) =>
            /\ calls[c].outcome \notin {"ok", "pending"}
            /\ Stores = calls[c].pre

\* C9: a ContentVersion row, once in the Version Store, stays in it unchanged, whatever
\* operation runs later.
C9_VersionsAppendOnly == [][versionStore \subseteq versionStore']_vars

\* a ContentVersion taken before its Content was soft-deleted is still stored, not
\* deleted
C9_Witness ==
    \E v \in versionStore :
        /\ ~v.isDeleted
        /\ contentStore[v.contentId].isDeleted

\* C10: after an updateAndPublish call with isDirty the stored publishedChildItems are
\* the incoming childItems in the same order, each with its content reference and its
\* kind rewritten page -> publishedPage, block -> publishedBlock,
\* media -> publishedMedia, any other kind kept.
PublishedKind ==
    (cmsPage :> cmsPublishedPage) @@ (cmsBlock :> cmsPublishedBlock)
        @@ (cmsMedia :> cmsPublishedMedia)

C10_ChildItemsRewritten ==
    \A c \in Calls :
        (Finished(c, "update") /\ Loaded(c) /\ calls[c].arg.isDirty) =>
            LET items == calls[c].arg.childItems
                pub   == contentStore[calls[c].id].publishedChildItems
            IN  /\ contentStore[calls[c].id].childItems = items
                /\ Len(pub) = Len(items)
                /\ \A i \in 1..Len(items) :
                      /\ pub[i].content = items[i].content
                      /\ pub[i].refPath =
                            IF items[i].refPath \in DOMAIN PublishedKind
                            THEN PublishedKind[items[i].refPath]
                            ELSE items[i].refPath

\* a dirty update without publish whose childItems hold a page, a block and an unknown
\* kind
C10_Witness ==
    \E c \in Calls :
        /\ Finished(c, "update") /\ Loaded(c)
        /\ calls[c].arg.isDirty /\ ~calls[c].arg.isPublished
        /\ \E i, j, k \in 1..Len(calls[c].arg.childItems) :
              /\ calls[c].arg.childItems[i].refPath = cmsPage
              /\ calls[c].arg.childItems[j].refPath = cmsBlock
              /\ calls[c].arg.childItems[k].refPath = Widget
        /\ contentStore[calls[c].id].publishedChildItems # <<>>

\* C11: updateHasChildren called with a null content returns false and changes nothing;
\* called with a Content whose hasChildren is already true it returns true and changes
\* nothing, the changed timestamp included; only a Content with hasChildren false is
\* written, and then the stored flag is true.
C11_UpdateHasChildren ==
    \A c \in Calls :
        Finished(c, "hasChildren") =>
            LET content == calls[c].arg IN
            /\ calls[c].outcome = "ok"
            /\ IF content = NullDoc
               THEN calls[c].result = FALSE /\ Stores = calls[c].pre
               ELSE IF content.hasChildren
               THEN calls[c].result = TRUE /\ Stores = calls[c].pre
               ELSE /\ calls[c].result = TRUE
                    /\ contentStore[calls[c].id].hasChildren

\* a second call on a Content that already has children, made after the clock moved on
C11_Witness ==
    \E c \in Calls :
        /\ Finished(c, "hasChildren")
        /\ calls[c].arg # NullDoc
        /\ calls[c].arg.hasChildren
        /\ now > calls[c].arg.changed

\* C12: no step of any operation, alone or overlapping another, turns isDeleted of a
\* stored Content from true back to false.
C12_DeletedIsTerminal ==
    [][\A id \in DOMAIN contentStore :
          contentStore[id].isDeleted =>
              (id \in DOMAIN contentStore' /\ contentStore'[id].isDeleted)]_vars

\* an update that loaded the Content while it was not deleted, after the delete had
\* loaded it, has saved its changes, and the Content is deleted
C12_Witness ==
    \E c \in Calls :
        /\ Finished(c, "update") /\ calls[c].outcome = "ok"
        /\ calls[c].arg.isDirty
        /\ ~calls[c].doc.isDeleted
        /\ contentStore[calls[c].id].name = calls[c].arg.name
        /\ contentStore[calls[c].id].isDeleted
        /\ contentStore[calls[c].id].changed > contentStore[calls[c].id].deleted

\* C13: a populated read with a null or empty id, or an id that is not stored, finds
\* nothing; otherwise it returns the Content with one entry per stored childItems
\* entry, where an entry is resolved exactly when the Content it references is stored
\* and not deleted, a resolved entry is that stored Content with its own childItems
\* left as stored references, and the stored childItems still hold every reference.
C13_PopulatedRead ==
    \A id \in IdSet \cup {Null, <<>>} :
        LET result == getPopulatedContentById(id) IN
        IF id \notin DOMAIN contentStore
        THEN result = NullDoc
        ELSE LET raw == contentStore[id].childItems IN
             /\ result._id = id
             /\ Len(result.childItems) = Len(raw)
             /\ \A i \in 1..Len(raw) :
                   LET child == result.childItems[i].content
                       live  == /\ raw[i].content \in DOMAIN contentStore
                                /\ ~contentStore[raw[i].content].isDeleted
                   IN  /\ raw[i].content \in IdSet
                       /\ (child # NullDoc) = live
                       /\ child # NullDoc =>
                             /\ child._id = raw[i].content
                             /\ ~child.isDeleted
                             /\ child.childItems = contentStore[raw[i].content].childItems
                             /\ \A k \in 1..Len(child.childItems) :
                                   child.childItems[k].content \in IdSet

\* a Content references a deleted Content and a live Content that has child items of
\* its own
C13_Witness ==
    \E id \in DOMAIN contentStore :
        \E i, j \in 1..Len(contentStore[id].childItems) :
            LET raw == contentStore[id].childItems IN
            /\ raw[i].content \in DOMAIN contentStore
            /\ contentStore[raw[i].content].isDeleted
            /\ getPopulatedContentById(id).childItems[i].content = NullDoc
            /\ raw[j].content \in DOMAIN contentStore
            /\ ~contentStore[raw[j].content].isDeleted
            /\ contentStore[raw[j].content].childItems # <<>>
            /\ getPopulatedContentById(id).childItems[j].content # NullDoc

\* the fields a ContentVersion and a PublishedContent take over from the Content,
\* apart from those a later soft delete of the PublishedContent writes
SnapshotFields ==
    {"name", "properties", "parentId", "parentPath", "ancestors", "childItems",
     "publishedChildItems", "hasChildren", "isPublished", "created", "changed",
     "published", "contentId"}

\* C14: in every state, every PublishedContent row has its own id as contentId and a
\* contentVersionId naming a stored ContentVersion of that same Content which is the
\* one built by the publish call that built the row: it holds the same snapshot, and a
\* call about to insert or having inserted its row references the version it created.
C14_PublishedReferencesVersion ==
    /\ \A r \in publishedStore :
          /\ r.contentId = r._id
          /\ \E v \in versionStore :
                /\ v._id = r.contentVersionId
                /\ v.contentId = r._id
                /\ \A f \in SnapshotFields : v[f] = r[f]
    /\ \A c \in Calls :
          (calls[c].op = "update" /\ calls[c].ranPublish
              /\ (calls[c].pc = "createPublishedContent"
                    \/ (calls[c].pc = "done" /\ calls[c].outcome = "ok"))) =>
                /\ calls[c].version \in versionStore
                /\ calls[c].publishedPage.contentVersionId = calls[c].version._id
                /\ calls[c].publishedPage._id = calls[c].version.contentId

\* two publishes of one Content overlap: one has inserted its PublishedContent, the
\* other has saved its ContentVersion and not yet replaced the PublishedContent
C14_Witness ==
    \E c, d \in Calls :
        /\ c # d
        /\ calls[c].op = "update" /\ calls[d].op = "update"
        /\ calls[c].id = calls[d].id
        /\ calls[c].ranPublish /\ calls[d].ranPublish
        /\ calls[c].pc = "done" /\ calls[c].outcome = "ok"
        /\ calls[c].publishedPage \in publishedStore
        /\ calls[d].pc = "findOneAndDelete"
        /\ Cardinality(VersionsOf(versionStore, calls[c].id)) = 2

\* a publish of call c that went no further than its first write: it waits for, or was
\* refused, the save of its ContentVersion
StoppedAfterMark(c) ==
    /\ calls[c].op = "update" /\ calls[c].ranPublish
    /\ \/ calls[c].pc = "createPageVersion"
       \/ calls[c].pc = "done" /\ calls[c].outcome = "StoreFailure"

\* C15: in every state a ContentVersion exists only for a Content stored as published
\* with a published time, and a PublishedContent only with its ContentVersion; a
\* publish that went no further than its first write has left the Content published
\* and neither a ContentVersion nor a PublishedContent of its own; and no step takes
\* isPublished or the published time of a stored Content back.
C15_PublishOrder ==
    /\ [](\A v \in versionStore :
             /\ contentStore[v.contentId].isPublished
             /\ contentStore[v.contentId].published # NoTime)
    /\ [](\A r \in publishedStore :
             \E v \in versionStore : v._id = r.contentVersionId)
    /\ [](\A c \in Calls :
             StoppedAfterMark(c) =>
                 /\ contentStore[calls[c].id].isPublished
                 /\ contentStore[calls[c].id].published # NoTime
                 /\ calls[c].version \notin versionStore
                 /\ \A v \in versionStore : v._id # calls[c].version._id
                 /\ \A r \in publishedStore :
                       r.contentVersionId # calls[c].version._id)
    /\ [][\A id \in DOMAIN contentStore :
             contentStore[id].isPublished =>
                 /\ contentStore'[id].isPublished
                 /\ contentStore'[id].published # NoTime]_vars

\* the save of the ContentVersion was refused and the Content, soft-deleted by a later
\* call, is still published with no ContentVersion
C15_Witness ==
    \E id \in DOMAIN contentStore :
        /\ contentStore[id].isPublished
        /\ contentStore[id].isDeleted
        /\ VersionsOf(versionStore, id) = {}
        /\ PublishedOf(publishedStore, id) = {}

\* the fields of a Content that a publish copies into its snapshots
ContentSnapshotFields == SnapshotFields \ {"contentId"}

\* C16: at the step where the mark-published write of a publish completes, the
\* ContentVersion that publish builds has a fresh id and carries name, properties,
\* child items, hierarchy fields, isPublished and the published time of the Content as
\* it is stored at that moment; and the PublishedContent the publish builds carries the
\* same values as that ContentVersion.
C16_SnapshotOfStored ==
    [][\A c \in Calls :
          /\ (calls[c].pc = "publishContent" /\ calls'[c].pc = "createPageVersion") =>
                LET version == calls'[c].version
                    stored  == contentStore'[calls[c].id]
                IN  /\ \A f \in ContentSnapshotFields : version[f] = stored[f]
                    /\ version.isPublished /\ version.published # NoTime
                    /\ version._id # calls[c].id
                    /\ \A v \in versionStore : v._id # version._id
          /\ (calls[c].pc = "findOneAndDelete"
                 /\ calls'[c].pc = "createPublishedContent") =>
                \A f \in ContentSnapshotFields :
                    calls'[c].publishedPage[f] = calls[c].version[f]]_vars

\* C17: when executeDelete(id) has finished on a Content that had a PublishedContent
\* row when the call began, the Published Store still holds a row for id, and that row
\* is deleted with a deleted time.
C17_PublishedSoftDeleted ==
    \A c \in Calls :
        (Finished(c, "delete") /\ Loaded(c)
            /\ PublishedOf(calls[c].pre.published, calls[c].id) # {}) =>
                /\ calls[c].outcome = "ok"
                /\ \E r \in publishedStore :
                      /\ r._id = calls[c].id
                      /\ r.isDeleted
                      /\ r.deleted # NoTime
                      /\ r.contentVersionId \in
                            {p.contentVersionId :
                                p \in PublishedOf(calls[c].pre.published, calls[c].id)}
                /\ Cardinality(publishedStore) = Cardinality(calls[c].pre.published)

\* a Content with a live PublishedContent row was deleted: the row is kept,
\* soft-deleted
C17_Witness ==
    \E c \in Calls :
        /\ Finished(c, "delete") /\ Loaded(c)
        /\ \E r \in calls[c].pre.published : r._id = calls[c].id /\ ~r.isDeleted
        /\ \E r \in publishedStore : r._id = calls[c].id /\ r.isDeleted

\* C18: when an executeDelete(id) and an updateAndPublish(id) asked to publish have
\* overlapped and both have finished, the Content id is deleted and the Published
\* Store holds no row for id that is not deleted.
C18_DeleteBeatsPublish ==
    \A c, d \in Calls :
        (Finished(c, "delete") /\ Finished(d, "update")
            /\ calls[c].id = calls[d].id
            /\ calls[d].arg.isPublished
            /\ calls[c].id \in DOMAIN calls[c].pre.content
            /\ calls[c].id \in DOMAIN calls[d].pre.content) =>
                /\ contentStore[calls[c].id].isDeleted
                /\ \A r \in PublishedOf(publishedStore, calls[c].id) : r.isDeleted

\* the parent named by the create call in slot c was missing or deleted when the call
\* began
BadParent(c) ==
    LET parentId == calls[c].arg.parentId IN
    /\ parentId # Null
    /\ \/ parentId \notin DOMAIN calls[c].pre.content
       \/ calls[c].pre.content[parentId].isDeleted

\* C19: an executeCreate whose parentId names a missing or a deleted Content persists
\* nothing; and whenever no call is in progress, every Content that is not deleted and
\* whose parent is not a root has a parent that is not deleted.
C19_NoLiveChildOfDeleted ==
    /\ \A c \in Calls :
          (Finished(c, "create") /\ BadParent(c)) =>
              /\ calls[c].outcome \notin {"ok", "pending"}
              /\ Stores = calls[c].pre
    /\ (\A c \in Calls : Settled(c)) =>
          \A id \in DOMAIN contentStore :
              (/\ ~contentStore[id].isDeleted
               /\ contentStore[id].parentId # Null
               /\ contentStore[contentStore[id].parentId].parentId # Null) =>
                  ~contentStore[contentStore[id].parentId].isDeleted

\* C20: the three soft deletes of executeDelete are pending together once the Content
\* is loaded; and when the call has finished with its own soft delete saved and the
\* bulk update of the descendants failed, its outcome is an error, the Content is
\* deleted, and every descendant has the isDeleted and deleted it had before the call.
C20_PartialDelete ==
    \A c \in Calls :
        /\ (calls[c].op = "delete" /\ calls[c].pc = "Promise.all") =>
              /\ calls[c].selfSave \in {"save", "done"}
              /\ calls[c].publishedDelete \in {"findOne", "save", "done", "failed"}
              /\ calls[c].childrenUpdate \in {"updateMany", "done", "failed"}
        /\ (Finished(c, "delete") /\ calls[c].selfSave = "done"
               /\ calls[c].childrenUpdate = "failed") =>
              /\ calls[c].outcome \notin {"ok", "pending"}
              /\ contentStore[calls[c].id].isDeleted
              /\ \A x \in DOMAIN contentStore :
                    IsDescendant(contentStore[x], calls[c].id) =>
                        /\ contentStore[x].isDeleted = calls[c].pre.content[x].isDeleted
                        /\ contentStore[x].deleted = calls[c].pre.content[x].deleted

\* the delete of a Content below a root has finished with the bulk update failed, and
\* a descendant the update would have matched is not deleted
C20_Witness ==
    \E c \in Calls :
        /\ Finished(c, "delete")
        /\ calls[c].selfSave = "done" /\ calls[c].childrenUpdate = "failed"
        /\ calls[c].outcome = "StoreFailure"
        /\ contentStore[calls[c].id].isDeleted
        /\ MatchedCount(contentStore, calls[c].doc) >= 1
        /\ \E x \in DOMAIN contentStore :
              IsDescendant(contentStore[x], calls[c].id) /\ ~contentStore[x].isDeleted

====
